---- MODULE Spec2Model ----
(***************************************************************************)
(* Model of birthname.py: a batch file renamer (rename_files / rename_file *)
(* run by a multiprocessing pool) with an undo log (undo_last_rename).     *)
(*                                                                         *)
(* Strings are sequences of tokens, so that concatenation is \o, `in' is   *)
(* contiguous-subsequence containment and endswith is a suffix test.       *)
(* Times are whole epoch seconds.  One directory is modelled; a path is    *)
(* the file name inside it.                                                *)
(***************************************************************************)
EXTENDS Integers, Sequences, FiniteSets, TLC

\* ------------------------------------------------------------------ bounds
NumInvocations == 2  \* rename invocations running side by side
NumFiles == 2        \* files present in the directory at the start
NumContents == 2     \* distinct file contents
MaxTime == 2         \* last value of the wall clock
MaxRuns == 3         \* invocations of the program in one behaviour
MaxProcs == 2        \* largest cpu count of multiprocessing.Pool()
MaxDeletes == 1      \* files removed by somebody else between invocations
TraceWindow == 2     \* finished invocations the trace remembers
MaxStamp == 3        \* largest time stamp handed to the timestamp estimator alone
MaxSuffix == 2       \* largest collision counter in a file name found at the start

FileIds == 1..NumFiles
Contents == 1..NumContents
Times == 1..MaxTime

\* ------------------------------------------------------- string helpers
\* str(i) of a small non-negative integer
Str(i) ==
  <<"0", "1", "2", "3", "4", "5", "6", "7", "8", "9">>[i + 1]

\* filename.endswith(extension)
EndsWith(s, suffix) ==
  /\ Len(s) >= Len(suffix)
  /\ SubSeq(s, Len(s) - Len(suffix) + 1, Len(s)) = suffix

\* `sub in s' for strings
Contains(s, sub) ==
  \E k \in 0..(Len(s) - Len(sub)) : SubSeq(s, k + 1, k + Len(sub)) = sub

\* min(times)
Min(S) == CHOOSE x \in S : \A y \in S : x <= y

\* ------------------------------------------------------------ constants
\* special_strings of rename_files, in list order
special_strings ==
  << <<"before-color-correction">>, <<"before-highres-fix">>, <<"mask">>,
     <<"before-refiner">>, <<"mask", "-composite">>, <<"censored">>,
     <<"before-hires">>, <<"before-face-restore">>, <<"init-image">> >>

\* the choices of --hash
HashChoices == {"sha256", "sha1", "md5", "imagehash"}

LogPath == "/var/log/rename_history.json"     \* the file rename_files writes
UndoPath == "rename_history.json"             \* the file undo_last_rename reads
VarLogDir == "/var/log"
OtherDir == "/home/user"

\* open(path): a relative path is resolved against the working directory
Resolve(dir, path) ==
  IF path = LogPath THEN LogPath
  ELSE IF dir = VarLogDir THEN LogPath
  ELSE "/home/user/rename_history.json"

HistoryFiles == {Resolve(d, p) : d \in {VarLogDir, OtherDir}, p \in {LogPath, UndoPath}}

\* ----------------------------------------------------------- the hasher
\* hexdigest of a content under a cryptographic method
HexDigest(method, c) ==
  IF method = "sha256" THEN <<"sha256:0a", "sha256:1b", "sha256:2c", "sha256:3d">>[c]
  ELSE IF method = "sha1" THEN <<"sha1:0a", "sha1:1b", "sha1:2c", "sha1:3d">>[c]
  ELSE <<"md5:0a", "md5:1b", "md5:2c", "md5:3d">>[c]

\* cv2.imread returns None for a file that is no image; odd contents are images
Decodable(c) == c % 2 = 1

\* the average hash of an image; similar images (1 and 3) share it
AverageHash(c) == <<"ff00ff00", "", "ff00ff00", "">>[c]

\* calculate_hash: [ok, value]; ok = FALSE when cv2.resize raises on None
calculate_hash(c, method) ==
  IF method \in {"sha256", "sha1", "md5"}
  THEN [ok |-> TRUE, value |-> <<HexDigest(method, c)>>]
  ELSE IF Decodable(c) THEN [ok |-> TRUE, value |-> <<AverageHash(c)>>]
       ELSE [ok |-> FALSE, value |-> <<>>]

\* ----------------------------------------------- the timestamp estimator
\* a variant that reports 0 instead of None for a missing birth time
get_creation_time_with_stat_zero(statOk, statW) ==
  IF statOk THEN {statW} ELSE {0}

\* get_creation_time_with_stat: the set {} is None, {t} is the birth time.
\* statOk = FALSE is a CalledProcessError, statW is the output of stat -c %W.
get_creation_time_with_stat(statOk, statW) ==
  IF statOk
  THEN IF statW > 0 THEN {statW} ELSE {}
  ELSE {}

\* get_oldest_time
get_oldest_time(mtime, ctime, statOk, statW) ==
  LET times == {mtime, ctime}
      birth_time_epoch == get_creation_time_with_stat(statOk, statW)
  IN  IF birth_time_epoch # {}
      THEN Min(times \cup birth_time_epoch)
      ELSE Min(times)

\* number of records get_oldest_time writes to file_renamer.log
OldestTimeLogRecords == 2

\* datetime.fromtimestamp(t).strftime('%Y%m%d.%H%M%S')
strftime(t) ==
  << <<"19700101.000000", "19700101.000001", "19700101.000002",
       "19700101.000003", "19700101.000004", "19700101.000005">>[t + 1] >>

\* -------------------------------------------------------- the name builder
\* lines 84-85: the marker suffix
RECURSIVE MatchingSpecials(_, _)
MatchingSpecials(strings, filename) ==
  IF strings = <<>> THEN <<>>
  ELSE IF Contains(filename, Head(strings))
       THEN <<Head(strings)>> \o MatchingSpecials(Tail(strings), filename)
       ELSE MatchingSpecials(Tail(strings), filename)

\* a variant of lines 84-85 that keeps the last matching marker
SpecialSuffix_last(filename) ==
  LET special_string == MatchingSpecials(special_strings, filename)
  IN  IF special_string # <<>> THEN <<"-">> \o special_string[Len(special_string)] ELSE <<>>

SpecialSuffix(filename) ==
  LET special_string == MatchingSpecials(special_strings, filename)
  IN  IF special_string # <<>> THEN <<"-">> \o special_string[1] ELSE <<>>

\* a variant of lines 88-93 without the branch on the hash method
CandidateName_timestamp_first(hash_method, filehash, date_string, special_string, extension) ==
  date_string \o <<"-">> \o filehash \o special_string \o extension

\* lines 88-93: the candidate name
CandidateName(hash_method, filehash, date_string, special_string, extension) ==
  IF hash_method = "imagehash"
  THEN filehash \o <<"-">> \o date_string \o special_string \o extension
  ELSE date_string \o <<"-">> \o filehash \o special_string \o extension

\* lines 100-103: the name tried for counter i
SuffixedName(hash_method, filehash, date_string, special_string, extension, base_new_name, i) ==
  IF hash_method = "imagehash"
  THEN filehash \o <<"-">> \o date_string \o special_string \o <<"-", Str(i)>> \o extension
  ELSE base_new_name \o <<"-", Str(i)>> \o extension

\* ------------------------------------------------------- the file system
\* os.rename(old, new) on a directory d when old exists: new is replaced
\* silently, the inode keeps its data and gets the change time `now'
os_rename(d, old, new, now) ==
  IF old = new THEN d
  ELSE [n \in (DOMAIN d \ {old}) \cup {new} |->
          IF n = new THEN [d[old] EXCEPT !.ctime = now] ELSE d[n]]

\* os.path.exists
os_path_exists(d, name) == name \in DOMAIN d

\* {old: new for old, new in filtered_results}: a later pair with the same
\* key replaces the value and keeps the key's position
RECURSIVE DictOf(_)
DictOf(pairs) ==
  IF pairs = <<>> THEN <<>>
  ELSE LET init == DictOf(SubSeq(pairs, 1, Len(pairs) - 1))
           p == pairs[Len(pairs)]
       IN  IF \E k \in 1..Len(init) : init[k][1] = p[1]
           THEN [k \in 1..Len(init) |-> IF init[k][1] = p[1] THEN p ELSE init[k]]
           ELSE Append(init, p)


\* json.load of a history file record, and the value json.dump leaves
NoFile == [exists |-> FALSE, data |-> <<>>]
JsonFile(history) == [exists |-> TRUE, data |-> history]

\* the list json.load gives for a history file record; [] when it is absent
Loaded(file) == IF file.exists THEN file.data ELSE <<>>

\* a variant of lines 148-149 that appends the last batch of the list to
\* what the file holds at the time of the write
json_dump_append(file, history) ==
  JsonFile((IF file.exists THEN file.data ELSE <<>>) \o <<history[Len(history)]>>)

\* lines 148-149: open(path, 'w') and json.dump: whatever the file held, it
\* now holds the list that was dumped
json_dump(file, history) == JsonFile(history)

\* ------------------------------------------------------------- the undo
\* lines 117-119: the loop over last_batch.items(); it stops at the first
\* os.rename that raises (the file at new_name is gone)
RECURSIVE UndoLoop(_, _, _)
UndoLoop(d, pairs, now) ==
  IF pairs = <<>> THEN [fs |-> d, ok |-> TRUE, reverted |-> 0]
  ELSE LET old_name == pairs[1][1]
           new_name == pairs[1][2]
       IN  IF ~os_path_exists(d, new_name)
           THEN [fs |-> d, ok |-> FALSE, reverted |-> 0]
           ELSE LET r == UndoLoop(os_rename(d, new_name, old_name, now), Tail(pairs), now)
                IN  [fs |-> r.fs, ok |-> r.ok, reverted |-> r.reverted + 1]

\* a variant that writes the history back whatever happened, as in a
\* `finally' clause: a missing or empty history leaves the file []
undo_last_rename_finally(d, hf, dir, now) ==
  LET path == Resolve(dir, UndoPath)
      rewritten == [fs |-> d, hf |-> [hf EXCEPT ![path] = JsonFile(<<>>)],
                    info |-> 0, error |-> 1]
  IN  IF ~hf[path].exists THEN rewritten
      ELSE LET history == hf[path].data
           IN  IF history = <<>> THEN rewritten
               ELSE LET last_batch == history[Len(history)]
                        popped == SubSeq(history, 1, Len(history) - 1)
                        r == UndoLoop(d, last_batch, now)
                    IN  [fs |-> r.fs, hf |-> [hf EXCEPT ![path] = JsonFile(popped)],
                         info |-> r.reverted, error |-> IF r.ok THEN 0 ELSE 1]

\* undo_last_rename: the directory, the history files and the records added
\* to file_renamer.log; any exception is caught and logged (lines 122-123)
undo_last_rename(d, hf, dir, now) ==
  LET path == Resolve(dir, UndoPath)
      unchanged == [fs |-> d, hf |-> hf, info |-> 0, error |-> 1]
  IN  IF ~hf[path].exists THEN unchanged
      ELSE LET history == hf[path].data
           IN  IF history = <<>> THEN unchanged
               ELSE LET last_batch == history[Len(history)]
                        popped == SubSeq(history, 1, Len(history) - 1)
                        r == UndoLoop(d, last_batch, now)
                    IN  IF r.ok
                        THEN [fs |-> r.fs, hf |-> [hf EXCEPT ![path] = JsonFile(popped)],
                              info |-> r.reverted, error |-> 0]
                        ELSE [fs |-> r.fs, hf |-> hf, info |-> r.reverted, error |-> 1]

\* ---------------------------------------------------------------- state
VARIABLES
  fs,          \* the directory: file name -> inode
  histfile,    \* the rename history files: path -> [exists, data]
  logfile,     \* file_renamer.log: number of INFO and of ERROR records
  clock,       \* the wall clock
  cwd,         \* the working directory of the invocations
  has_args,    \* whether the command lines give --dir and --ext
  hash_method, \* args.hash
  nproc,       \* the cpu count, the size of multiprocessing.Pool()
  pc,          \* position of the main process
  file_list,   \* rename_files: the tasks, in os.walk order
  next_task,   \* the pool: index of the next task to hand out
  worker,      \* the pool: the locals of rename_file in each worker
  results,     \* the pool: the result of each task
  rename_history,  \* rename_files: the batch of this invocation
  history,     \* rename_files: the list read from the history file
  exit_status, \* the exit status of the last process, <<>> before the first
  cur,         \* the invocation in progress: what it found and what it did
  trace,       \* the last finished invocations and foreign deletions, in order
  runs,        \* number of invocations started
  deletes,     \* number of foreign deletions
  probe,       \* one call of get_oldest_time on its own: the stat values, the result
  named,       \* one file put through the name builder on its own: the file, the name
  inv          \* invocations running side by side: each one's position and locals

vars == <<fs, histfile, logfile, clock, cwd, hash_method, nproc, pc, file_list,
          next_task, worker, results, rename_history, history, exit_status, cur, trace,
          has_args, runs, deletes, probe, named, inv>>

\* args.ext
extension == <<".png">>

\* names of the files found at the start
RawName(id) == << <<"a">>, <<"b">>, <<"c">>, <<"d">>, <<"e">> >>[id] \o extension

IdleWorker ==
  [pc |-> "idle", task |-> 0, filehash |-> <<>>, date_string |-> <<>>,
   special_string |-> <<>>, new_name |-> <<>>, base_new_name |-> <<>>, i |-> 0]

Pending == [tag |-> "pending", old |-> <<>>, new |-> <<>>]
Skipped == [tag |-> "None", old |-> <<>>, new |-> <<>>]
Raised == [tag |-> "raised", old |-> <<>>, new |-> <<>>]
Renamed(old_name, new_name) == [tag |-> "pair", old |-> old_name, new |-> new_name]

NoRun ==
  [kind |-> "none", fsBefore |-> <<>>, histBefore |-> <<>>, logBefore |-> [info |-> 0, error |-> 0],
   performed |-> <<>>, batch |-> <<>>, status |-> 0, reads |-> 0, writes |-> 0]

NoProbe == [mtime |-> 0, ctime |-> 0, statOk |-> FALSE, statW |-> 0, result |-> <<>>]
NoNamed == [filename |-> <<>>, method |-> "sha256", content |-> 1, mtime |-> 0, ctime |-> 0,
            result |-> <<>>]

\* the files are interchangeable (os.walk hands them out in any order), so the
\* start states list contents and modification times in non-decreasing order
Sorted(content, mtime) ==
  \A j, k \in FileIds :
     j < k => \/ content[j] < content[k]
              \/ content[j] = content[k] /\ mtime[j] <= mtime[k]

Init ==
  /\ \E content \in [FileIds -> Contents], mtime \in [FileIds -> {1, MaxTime}],
        statW \in {0, 1} :
       /\ Sorted(content, mtime)
       /\ fs = [n \in {RawName(id) : id \in FileIds} |->
               LET id == CHOOSE k \in FileIds : RawName(k) = n
               IN  [id |-> id, content |-> content[id], mtime |-> mtime[id],
                    ctime |-> 1, statOk |-> TRUE, statW |-> statW]]
  /\ histfile = [p \in HistoryFiles |-> NoFile]
  /\ logfile = [info |-> 0, error |-> 0]
  /\ clock = 1
  /\ cwd \in {VarLogDir, OtherDir}
  /\ has_args \in BOOLEAN
  /\ runs = 0
  /\ deletes = 0
  /\ hash_method \in {"sha256", "imagehash"}
  /\ nproc \in 1..MaxProcs
  /\ pc = "idle"
  /\ file_list = <<>>
  /\ next_task = 1
  /\ worker = [w \in 1..nproc |-> IdleWorker]
  /\ results = <<>>
  /\ rename_history = <<>>
  /\ history = <<>>
  /\ probe = NoProbe
  /\ named = NoNamed
  /\ inv = <<>>
  /\ exit_status = <<>>
  /\ cur = NoRun
  /\ trace = <<>>

\* ------------------------------------------------------------- actions
\* reads and writes count the times rename_files opened the history file to
\* load it and to dump it
Snapshot(kind) ==
  [kind |-> kind, fsBefore |-> fs, histBefore |-> histfile, logBefore |-> logfile,
   performed |-> <<>>, batch |-> <<>>, status |-> 0, reads |-> 0, writes |-> 0]

Record(entry) ==
  LET t == Append(trace, entry)
  IN  IF Len(t) > TraceWindow THEN Tail(t) ELSE t

AddLog(info, error) ==
  [info |-> logfile.info + info, error |-> logfile.error + error]

\* os.walk: the matching files, in an order the file system chooses
Walk(d) ==
  LET S == {n \in DOMAIN d : EndsWith(n, extension)}
  IN  {fl \in [1..Cardinality(S) -> S] : \A j, k \in 1..Cardinality(S) : fl[j] = fl[k] => j = k}

\* lines 20-23: --dir or --ext is missing
UsageError ==
  /\ pc = "idle" /\ ~has_args /\ runs < MaxRuns
  /\ runs' = runs + 1
  /\ exit_status' = <<1>>
  /\ UNCHANGED <<probe, named, inv, has_args, deletes, fs, histfile, logfile, clock, cwd, hash_method, nproc, pc, file_list,
                 next_task, worker, results, rename_history, history, cur, trace>>

\* lines 152-153: --dir undo
Undo ==
  /\ pc = "idle" /\ has_args /\ runs < MaxRuns
  /\ runs' = runs + 1
  /\ LET r == undo_last_rename(fs, histfile, cwd, clock)
     IN  /\ fs' = r.fs
         /\ histfile' = r.hf
         /\ logfile' = AddLog(r.info, r.error)
  /\ trace' = Record(Snapshot("undo"))
  /\ exit_status' = <<0>>
  /\ UNCHANGED <<probe, named, inv, has_args, deletes, clock, cwd, hash_method, nproc, pc, file_list, next_task, worker,
                 results, rename_history, history, cur>>

\* lines 126-133: rename_files walks the directory and starts the pool
StartRename ==
  /\ pc = "idle" /\ has_args /\ runs < MaxRuns
  /\ runs' = runs + 1
  /\ \E fl \in Walk(fs) :
       /\ file_list' = fl
       /\ results' = [k \in 1..Len(fl) |-> Pending]
  /\ next_task' = 1
  /\ pc' = "pool"
  /\ cur' = Snapshot("rename")
  /\ UNCHANGED <<probe, named, inv, has_args, deletes, exit_status, fs, histfile, logfile, clock, cwd, hash_method, nproc, worker,
                 rename_history, history, trace>>

\* a variant of line 97 that starts the counter one too high
FirstCounterSkipped == 1 + 1

\* line 97: the first counter
FirstCounter == 1

\* a variant of line 95 that never skips
NeedsRename_always(old_name, new_name) == TRUE

\* line 95: the test that guards the rename
NeedsRename(old_name, new_name) == old_name # new_name

\* lines 79-97 in a pool worker: the next task up to the first existence check
TaskStart(w) ==
  /\ pc = "pool" /\ worker[w].pc = "idle" /\ next_task <= Len(file_list)
  /\ next_task' = next_task + 1
  /\ LET t == next_task
         filename == file_list[t]
         old_name == filename
     IN  IF ~os_path_exists(fs, old_name)
         THEN /\ results' = [results EXCEPT ![t] = Raised]
              /\ UNCHANGED <<worker, logfile>>
         ELSE LET inode == fs[old_name]
                  oldest_time == get_oldest_time(inode.mtime, inode.ctime, inode.statOk, inode.statW)
                  date_string == strftime(oldest_time)
                  h == calculate_hash(inode.content, hash_method)
                  special_string == SpecialSuffix(filename)
                  new_name == CandidateName(hash_method, h.value, date_string, special_string, extension)
              IN  IF ~h.ok
                  THEN /\ results' = [results EXCEPT ![t] = Raised]
                       /\ logfile' = AddLog(OldestTimeLogRecords, 0)
                       /\ UNCHANGED worker
                  ELSE IF NeedsRename(old_name, new_name)
                  THEN /\ worker' = [worker EXCEPT ![w] =
                              [pc |-> "check", task |-> t, filehash |-> h.value,
                               date_string |-> date_string, special_string |-> special_string,
                               new_name |-> new_name, base_new_name |-> new_name,
                               i |-> FirstCounter]]
                       /\ logfile' = AddLog(OldestTimeLogRecords, 0)
                       /\ UNCHANGED results
                  ELSE /\ results' = [results EXCEPT ![t] = Skipped]
                       /\ logfile' = AddLog(OldestTimeLogRecords + 1, 0)
                       /\ UNCHANGED worker
  /\ UNCHANGED <<probe, named, inv, has_args, runs, deletes, exit_status, fs, histfile, clock, cwd, hash_method, nproc, pc, file_list,
                 rename_history, history, cur, trace>>

\* lines 98-104: one evaluation of the while condition and, if true, the body
CheckExists(w) ==
  /\ pc = "pool" /\ worker[w].pc = "check"
  /\ LET l == worker[w]
     IN  IF os_path_exists(fs, l.new_name)
         THEN worker' = [worker EXCEPT ![w] =
                [l EXCEPT !.new_name = SuffixedName(hash_method, l.filehash, l.date_string,
                                                    l.special_string, extension,
                                                    l.base_new_name, l.i),
                          !.i = l.i + 1]]
         ELSE worker' = [worker EXCEPT ![w].pc = "rename"]
  /\ UNCHANGED <<probe, named, inv, has_args, runs, deletes, exit_status, fs, histfile, logfile, clock, cwd, hash_method, nproc, pc, file_list,
                 next_task, results, rename_history, history, cur, trace>>

\* lines 105-107: os.rename and the result of the task
DoRename(w) ==
  /\ pc = "pool" /\ worker[w].pc = "rename"
  /\ LET l == worker[w]
         old_name == file_list[l.task]
     IN  IF ~os_path_exists(fs, old_name)
         THEN /\ results' = [results EXCEPT ![l.task] = Raised]
              /\ UNCHANGED <<fs, logfile, cur>>
         ELSE /\ fs' = os_rename(fs, old_name, l.new_name, clock)
              /\ logfile' = AddLog(1, 0)
              /\ results' = [results EXCEPT ![l.task] = Renamed(old_name, l.new_name)]
              /\ cur' = [cur EXCEPT !.performed =
                           Append(@, [id |-> fs[old_name].id, old |-> old_name,
                                      new |-> l.new_name,
                                      replaced |-> os_path_exists(fs, l.new_name),
                                      base_new_name |-> l.base_new_name, filehash |-> l.filehash,
                                      date_string |-> l.date_string,
                                      special_string |-> l.special_string])]
  /\ worker' = [worker EXCEPT ![w] = IdleWorker]
  /\ UNCHANGED <<probe, named, inv, has_args, runs, deletes, exit_status, histfile, clock, cwd, hash_method, nproc, pc, file_list, next_task,
                 rename_history, history, trace>>

\* line 137: the results that are not None, as (old, new) pairs
RECURSIVE FilteredResults(_)
FilteredResults(rs) ==
  IF rs = <<>> THEN <<>>
  ELSE IF Head(rs).tag = "pair"
       THEN << <<Head(rs).old, Head(rs).new>> >> \o FilteredResults(Tail(rs))
       ELSE FilteredResults(Tail(rs))

\* the end of an invocation: the process exits with `status'
Finish(status, batch) ==
  /\ trace' = Record([cur EXCEPT !.status = status, !.batch = batch,
                                  !.writes = IF pc = "write" THEN @ + 1 ELSE @])
  /\ exit_status' = <<status>>
  /\ cur' = NoRun
  /\ pc' = "idle"
  /\ file_list' = <<>>
  /\ results' = <<>>
  /\ next_task' = 1
  /\ rename_history' = <<>>
  /\ history' = <<>>

\* a variant of line 134 that returns as soon as one task has ended
AllTasksEnded_first ==
  \E k \in DOMAIN results : results[k].tag # "pending"

\* line 134: pool.map blocks until every task has been handed out and has ended
AllTasksEnded ==
  /\ next_task > Len(file_list)
  /\ \A w \in DOMAIN worker : worker[w].pc = "idle"

\* lines 134-141: pool.map returns once every task has ended; it re-raises
\* the exception of a task, which nothing catches
PoolDone ==
  /\ pc = "pool" /\ AllTasksEnded
  /\ IF \E k \in DOMAIN results : results[k].tag = "raised"
     THEN Finish(1, <<>>)
     ELSE LET batch == DictOf(FilteredResults(results))
          IN  IF batch # <<>>
              THEN /\ rename_history' = batch
                   /\ pc' = "read"
                   /\ UNCHANGED <<trace, cur, file_list, results, next_task, history,
                                  exit_status>>
              ELSE Finish(0, <<>>)
  /\ UNCHANGED <<probe, named, inv, has_args, runs, deletes, fs, histfile, logfile, clock, cwd, hash_method, nproc, worker>>

\* lines 142-147: read the history (or start an empty one) and append the batch
ReadHistory ==
  /\ pc = "read"
  /\ history' = Append(IF histfile[LogPath].exists THEN histfile[LogPath].data ELSE <<>>,
                       rename_history)
  /\ pc' = "write"
  /\ cur' = [cur EXCEPT !.reads = @ + 1]
  /\ UNCHANGED <<probe, named, inv, has_args, runs, deletes, exit_status, fs, histfile, logfile, clock, cwd, hash_method, nproc, file_list,
                 next_task, worker, results, rename_history, trace>>

\* lines 148-149: rewrite the whole history file
WriteHistory ==
  /\ pc = "write"
  /\ histfile' = [histfile EXCEPT ![LogPath] = json_dump(histfile[LogPath], history)]
  /\ Finish(0, rename_history)
  /\ UNCHANGED <<probe, named, inv, has_args, runs, deletes, fs, logfile, clock, cwd, hash_method, nproc, worker>>

\* the environment: time passes; an invocation ends within the second it
\* started in, so the clock moves between invocations
Tick ==
  /\ pc = "idle" /\ clock < MaxTime
  /\ clock' = clock + 1
  /\ UNCHANGED <<probe, named, inv, has_args, runs, deletes, exit_status, fs, histfile, logfile, cwd, hash_method, nproc, pc, file_list,
                 next_task, worker, results, rename_history, history, cur, trace>>

\* the environment: somebody removes a file between two invocations
ForeignDelete ==
  /\ pc = "idle" /\ deletes < MaxDeletes
  /\ deletes' = deletes + 1
  /\ \E n \in DOMAIN fs : fs' = [m \in DOMAIN fs \ {n} |-> fs[m]]
  /\ trace' = Record(Snapshot("delete"))
  /\ UNCHANGED <<probe, named, inv, has_args, runs, exit_status, histfile, logfile, clock, cwd, hash_method, nproc, pc, file_list,
                 next_task, worker, results, rename_history, history, cur>>

Next ==
  \/ UsageError
  \/ Undo
  \/ StartRename
  \/ \E w \in DOMAIN worker : TaskStart(w)
  \/ \E w \in DOMAIN worker : CheckExists(w)
  \/ \E w \in DOMAIN worker : DoRename(w)
  \/ PoolDone
  \/ ReadHistory
  \/ WriteHistory
  \/ Tick
  \/ ForeignDelete

Spec == Init /\ [][Next]_vars

\* the same program on a machine with one cpu: the pool has one worker and
\* the tasks run one after another, in file_list order
InitSeq == Init /\ nproc = 1
SpecSeq == InitSeq /\ [][Next]_vars

\* ------------------------------------------- the timestamp estimator alone
\* get_oldest_time called on a file with any combination of stat values
InitOldest ==
  /\ probe \in [mtime : 1..MaxStamp, ctime : 1..MaxStamp, statOk : BOOLEAN,
                statW : 0..MaxStamp, result : {<<>>}]
  /\ named = NoNamed
  /\ inv = <<>>
  /\ fs = <<>>
  /\ histfile = [p \in HistoryFiles |-> NoFile]
  /\ logfile = [info |-> 0, error |-> 0]
  /\ clock = 1
  /\ cwd = OtherDir
  /\ has_args = TRUE
  /\ runs = 0
  /\ deletes = 0
  /\ hash_method = "sha256"
  /\ nproc = 1
  /\ pc = "estimate"
  /\ file_list = <<>>
  /\ next_task = 1
  /\ worker = [w \in 1..nproc |-> IdleWorker]
  /\ results = <<>>
  /\ rename_history = <<>>
  /\ history = <<>>
  /\ exit_status = <<>>
  /\ cur = NoRun
  /\ trace = <<>>

CallOldest ==
  /\ pc = "estimate" /\ probe.result = <<>>
  /\ probe' = [probe EXCEPT !.result =
                 <<get_oldest_time(probe.mtime, probe.ctime, probe.statOk, probe.statW)>>]
  /\ logfile' = AddLog(OldestTimeLogRecords, 0)
  /\ UNCHANGED <<fs, histfile, clock, cwd, hash_method, nproc, pc, file_list,
                 next_task, worker, results, rename_history, history, exit_status,
                 cur, trace, has_args, runs, deletes, named, inv>>

NextOldest == CallOldest

SpecOldest == InitOldest /\ [][NextOldest]_vars

\* --------------------------------------------------- the name builder alone
\* file names the walk can hand to rename_file: each ends with the extension;
\* some contain no marker, some one, some several
SampleNames ==
  { <<"img">> \o extension,
    <<"sample-", "mask">> \o extension,
    <<"img-", "mask", "-composite">> \o extension,
    <<"img-", "censored">> \o extension,
    <<"img-", "before-hires", "-", "censored">> \o extension,
    <<"init-image", "-", "before-color-correction">> \o extension,
    <<"mask", "-composite", "-", "before-refiner">> \o extension }

\* rename_file called on one file of any sample name, content and times, with
\* any hash method
InitName ==
  /\ named \in [filename : SampleNames, method : HashChoices, content : Contents,
                mtime : Times, ctime : Times, result : {<<>>}]
  /\ probe = NoProbe
  /\ inv = <<>>
  /\ fs = <<>>
  /\ histfile = [p \in HistoryFiles |-> NoFile]
  /\ logfile = [info |-> 0, error |-> 0]
  /\ clock = 1
  /\ cwd = OtherDir
  /\ has_args = TRUE
  /\ runs = 0
  /\ deletes = 0
  /\ hash_method = named.method
  /\ nproc = 1
  /\ pc = "name"
  /\ file_list = <<>>
  /\ next_task = 1
  /\ worker = [w \in 1..nproc |-> IdleWorker]
  /\ results = <<>>
  /\ rename_history = <<>>
  /\ history = <<>>
  /\ exit_status = <<>>
  /\ cur = NoRun
  /\ trace = <<>>

\* lines 80-93 on the file: the candidate name, or the exception of the hasher
BuildName ==
  /\ pc = "name" /\ named.result = <<>>
  /\ LET filename == named.filename
         oldest_time == get_oldest_time(named.mtime, named.ctime, FALSE, 0)
         date_string == strftime(oldest_time)
         h == calculate_hash(named.content, hash_method)
         special_string == SpecialSuffix(filename)
         new_name == CandidateName(hash_method, h.value, date_string, special_string, extension)
     IN  named' = [named EXCEPT !.result =
                     IF h.ok THEN <<[raised |-> FALSE, new_name |-> new_name]>>
                     ELSE <<[raised |-> TRUE, new_name |-> <<>>]>>]
  /\ logfile' = AddLog(OldestTimeLogRecords, 0)
  /\ UNCHANGED <<fs, histfile, clock, cwd, hash_method, nproc, pc, file_list,
                 next_task, worker, results, rename_history, history, exit_status,
                 cur, trace, has_args, runs, deletes, probe, inv>>

NextName == BuildName

SpecName == InitName /\ [][NextName]_vars

\* ------------------------------------------ invocations side by side
\* NumInvocations rename invocations run at the same time, each started on a
\* directory of its own that holds one file (whose path is written as its
\* name), with a cryptographic hash; all of them use the log at LogPath.  The
\* file of invocation p has content p.
Invocations == 1..NumInvocations

\* a batch an earlier invocation left in the log
EarlierBatch == << <<RawName(NumInvocations + 1), <<"19700101.000000", "-", "sha256:3d">> \o extension>> >>

InitTwo ==
  /\ hash_method \in {"sha256", "sha1", "md5"}
  /\ nproc = 1
  /\ runs = 0
  /\ cwd = OtherDir
  /\ \E mtime \in [Invocations -> Times] :
       fs = [n \in {RawName(p) : p \in Invocations} |->
               LET p == CHOOSE k \in Invocations : RawName(k) = n
               IN  [id |-> p, content |-> p, mtime |-> mtime[p],
                    ctime |-> MaxTime, statOk |-> TRUE, statW |-> 0]]
  /\ \E log \in {NoFile, JsonFile(<<>>), JsonFile(<<EarlierBatch>>)} :
       histfile = [p \in HistoryFiles |-> IF p = LogPath THEN log ELSE NoFile]
  /\ logfile = [info |-> 0, error |-> 0]
  /\ clock = MaxTime
  /\ has_args = TRUE
  /\ deletes = 0
  /\ pc = "side by side"
  /\ file_list = <<>>
  /\ next_task = 1
  /\ worker = [w \in 1..nproc |-> IdleWorker]
  /\ results = <<>>
  /\ rename_history = <<>>
  /\ history = <<>>
  /\ exit_status = <<>>
  /\ cur = NoRun
  /\ trace = <<>>
  /\ probe = NoProbe
  /\ named = NoNamed
  /\ inv = [p \in Invocations |->
              [pc |-> "pool", rename_history |-> <<>>, history |-> <<>>]]

\* lines 127-141 of invocation p: its one file is renamed to its candidate
\* path, which is free, and the batch is the one pair
TwoPool(p) ==
  /\ pc = "side by side" /\ inv[p].pc = "pool"
  /\ LET old_name == RawName(p)
         inode == fs[old_name]
         oldest_time == get_oldest_time(inode.mtime, inode.ctime, inode.statOk, inode.statW)
         h == calculate_hash(inode.content, hash_method)
         new_name == CandidateName(hash_method, h.value, strftime(oldest_time),
                                   SpecialSuffix(old_name), extension)
     IN  /\ NeedsRename(old_name, new_name) /\ ~os_path_exists(fs, new_name)
         /\ fs' = os_rename(fs, old_name, new_name, clock)
         /\ inv' = [inv EXCEPT ![p].pc = "read",
                               ![p].rename_history = DictOf(<< <<old_name, new_name>> >>)]
  /\ logfile' = AddLog(OldestTimeLogRecords + 1, 0)
  /\ UNCHANGED <<histfile, clock, cwd, hash_method, nproc, pc, file_list,
                 next_task, worker, results, rename_history, history, exit_status,
                 cur, trace, has_args, runs, deletes, probe, named>>

\* lines 142-147 of invocation p
TwoRead(p) ==
  /\ pc = "side by side" /\ inv[p].pc = "read"
  /\ inv' = [inv EXCEPT ![p].pc = "write",
                        ![p].history = Append(Loaded(histfile[LogPath]), inv[p].rename_history)]
  /\ UNCHANGED <<fs, histfile, logfile, clock, cwd, hash_method, nproc, pc, file_list,
                 next_task, worker, results, rename_history, history, exit_status,
                 cur, trace, has_args, runs, deletes, probe, named>>

\* lines 148-149 of invocation p
TwoWrite(p) ==
  /\ pc = "side by side" /\ inv[p].pc = "write"
  /\ histfile' = [histfile EXCEPT ![LogPath] = json_dump(histfile[LogPath], inv[p].history)]
  /\ inv' = [inv EXCEPT ![p].pc = "done"]
  /\ UNCHANGED <<fs, logfile, clock, cwd, hash_method, nproc, pc, file_list,
                 next_task, worker, results, rename_history, history, exit_status,
                 cur, trace, has_args, runs, deletes, probe, named>>

NextTwo ==
  \/ \E p \in Invocations : TwoPool(p)
  \/ \E p \in Invocations : TwoRead(p)
  \/ \E p \in Invocations : TwoWrite(p)

SpecTwo == InitTwo /\ [][NextTwo]_vars

\* ------------------------------------------------ one undo on its own
\* the state every specification starts from, apart from what it draws
AtRest ==
  /\ logfile = [info |-> 0, error |-> 0]
  /\ clock = 1
  /\ has_args = TRUE
  /\ deletes = 0
  /\ pc = "idle"
  /\ file_list = <<>>
  /\ next_task = 1
  /\ worker = [w \in 1..nproc |-> IdleWorker]
  /\ results = <<>>
  /\ rename_history = <<>>
  /\ history = <<>>
  /\ exit_status = <<>>
  /\ cur = NoRun
  /\ trace = <<>>
  /\ probe = NoProbe
  /\ named = NoNamed
  /\ inv = <<>>

\* the names rename_file gives with method m, numbered: the candidate of each
\* content at time 1 (k = 0) and its collision names (k = 1 .. MaxSuffix)
CanonCount == NumContents * (MaxSuffix + 1)
CanonContent(x) == ((x - 1) \div (MaxSuffix + 1)) + 1
CanonCounter(x) == (x - 1) % (MaxSuffix + 1)
CanonName(m, x) ==
  LET h == calculate_hash(CanonContent(x), m).value
      base == CandidateName(m, h, strftime(1), <<>>, extension)
  IN  IF CanonCounter(x) = 0 THEN base
      ELSE SuffixedName(m, h, strftime(1), <<>>, extension, base, CanonCounter(x))

\* a directory as earlier invocations or the user may have left it: every file
\* has its first name (x = 0) or a name rename_file gives, no two files the
\* same.  The files are interchangeable, so they are listed in non-decreasing
\* order of content and name.
Directories(m, CS) ==
  LET Choices == {ch \in [FileIds -> [x : 0..CanonCount, content : CS]] :
                    /\ \A id \in FileIds :
                         ch[id].x > 0 => calculate_hash(CanonContent(ch[id].x), m).ok
                    /\ \A j, k \in FileIds :
                         j < k => \/ ch[j].content < ch[k].content
                                  \/ /\ ch[j].content = ch[k].content
                                     /\ \/ ch[j].x < ch[k].x
                                        \/ ch[j].x = 0 /\ ch[k].x = 0
                    /\ \A j, k \in FileIds :
                         (j # k /\ ch[j].x > 0) => ch[j].x # ch[k].x}
      NameOf(ch, id) == IF ch[id].x = 0 THEN RawName(id) ELSE CanonName(m, ch[id].x)
  IN  {[n \in {NameOf(ch, id) : id \in FileIds} |->
          LET id == CHOOSE k \in FileIds : NameOf(ch, k) = n
          IN  [id |-> id, content |-> ch[id].content, mtime |-> 1, ctime |-> 1,
               statOk |-> TRUE, statW |-> 0]] : ch \in Choices}

\* the batch that would have brought the files of d to their present names
BatchTo(d) ==
  LET moved == {id \in FileIds : \E n \in DOMAIN d : d[n].id = id /\ n # RawName(id)}
      NameOf(id) == CHOOSE n \in DOMAIN d : d[n].id = id
      RECURSIVE Build(_)
      Build(k) ==
        IF k > NumFiles THEN <<>>
        ELSE IF k \in moved THEN << <<RawName(k), NameOf(k)>> >> \o Build(k + 1)
             ELSE Build(k + 1)
  IN  Build(1)

\* undo invocations on a directory and history files in any condition:
\* absent, an empty list, or one batch
InitUndo ==
  /\ hash_method = "sha256"
  /\ nproc = 1
  /\ runs = 0
  /\ cwd \in {VarLogDir, OtherDir}
  /\ fs \in Directories(hash_method, {1})
  /\ histfile \in [HistoryFiles ->
                     {NoFile, JsonFile(<<>>)} \cup
                     (IF BatchTo(fs) # <<>> THEN {JsonFile(<<BatchTo(fs)>>)} ELSE {})]
  /\ AtRest

NextUndo == Undo

SpecUndo == InitUndo /\ [][NextUndo]_vars

\* ------------------------------------- one rename invocation on its own
\* a machine with one cpu: the tasks run one after another
InitPass ==
  /\ hash_method \in {"sha256", "imagehash"}
  /\ nproc = 1
  /\ runs = MaxRuns - 1
  /\ cwd = OtherDir
  /\ fs \in Directories(hash_method, Contents)
  /\ histfile = [p \in HistoryFiles |-> NoFile]
  /\ AtRest

NextPass ==
  \/ StartRename
  \/ \E w \in DOMAIN worker : TaskStart(w)
  \/ \E w \in DOMAIN worker : CheckExists(w)
  \/ \E w \in DOMAIN worker : DoRename(w)
  \/ PoolDone
  \/ ReadHistory
  \/ WriteHistory

SpecPass == InitPass /\ [][NextPass]_vars

\* --------------------------------------------- one invocation with its pool
\* one rename invocation on a directory of first names, with any number of
\* workers, and with a log that is absent or holds an earlier batch
InitPool ==
  /\ hash_method \in {"sha256", "imagehash"}
  /\ nproc \in 1..MaxProcs
  /\ runs = MaxRuns - 1
  /\ cwd = OtherDir
  /\ \E content \in [FileIds -> Contents] :
       /\ Sorted(content, [id \in FileIds |-> 1])
       /\ fs = [n \in {RawName(id) : id \in FileIds} |->
               LET id == CHOOSE k \in FileIds : RawName(k) = n
               IN  [id |-> id, content |-> content[id], mtime |-> 1,
                    ctime |-> 1, statOk |-> TRUE, statW |-> 0]]
  /\ \E log \in {NoFile, JsonFile(<<EarlierBatch>>)} :
       histfile = [p \in HistoryFiles |-> IF p = LogPath THEN log ELSE NoFile]
  /\ AtRest

SpecPool == InitPool /\ [][NextPass]_vars

\* -------------------------------------------------------------- claims
\* the candidate times of a probe: mtime, ctime and the birth time when the
\* stat command succeeds and reports one
BirthAvailable(p) == p.statOk /\ p.statW > 0
Candidates(p) == {p.mtime, p.ctime} \cup (IF BirthAvailable(p) THEN {p.statW} ELSE {})

\* C7: get_oldest_time returns the least of the available candidate times:
\* of mtime, ctime and birth when the birth time is reported (> 0), and of
\* mtime and ctime alone when it is unavailable (stat reports 0 or fails);
\* an unavailable birth time never lowers the result.
Thm_C7_OldestIsMinOfAvailable ==
  probe.result # <<>> =>
    /\ probe.result[1] \in Candidates(probe)
    /\ \A t \in Candidates(probe) : probe.result[1] <= t

\* C7 witnesses: a result with the birth time unavailable, equal to mtime,
\* which is later than the omitted stat value would have been
Wit_C7_BirthUnavailable ==
  /\ probe.result # <<>>
  /\ ~probe.statOk /\ probe.statW = 1
  /\ probe.mtime = 2 /\ probe.ctime = 3
  /\ probe.result[1] = 2

\* ---- helpers of the claims about invocations
Last == trace[Len(trace)]
Prev == trace[Len(trace) - 1]

\* which file is at which path
NameMap(d) == {<<n, d[n].id>> : n \in DOMAIN d}

Range(seq) == {seq[k] : k \in DOMAIN seq}

\* the pairs (old, new) of the renames an invocation performed on disk
PerformedPairs(run) == {<<run.performed[k].old, run.performed[k].new>> : k \in DOMAIN run.performed}

\* an undo invocation has just ended
JustUndone == pc = "idle" /\ trace # <<>> /\ Last.kind = "undo"

\* a rename invocation has just ended
JustRenamed == pc = "idle" /\ trace # <<>> /\ Last.kind = "rename"

\* C1: after two rename invocations have persisted batches B1 then B2 (and
\* nobody else touched the directory), one undo leaves the log that rename_files wrote without B2 (equal to [B1]),
\* and every file is at the path it had before B2: the files of B2 are
\* restored and no other file is moved.
Cex_C1_UndoReversesLastBatch ==
  ( /\ JustUndone /\ deletes = 0
    /\ Len(trace) >= 2
    /\ Prev.kind = "rename" /\ Prev.status = 0 /\ Prev.batch # <<>>
    /\ Len(Loaded(Last.histBefore[LogPath])) >= 2 )
  => /\ histfile[LogPath] =
          JsonFile(SubSeq(Last.histBefore[LogPath].data, 1,
                          Len(Last.histBefore[LogPath].data) - 1))
     /\ NameMap(fs) = NameMap(Prev.fsBefore)

\* C2: within one rename invocation no two tasks end at the same new path and
\* no rename lands on a path that holds a file, for every interleaving of the
\* workers' existence checks and renames.
Cex_C2_UniqueFinalNames ==
  cur.kind = "rename" =>
    /\ \A j, k \in DOMAIN cur.performed :
         j # k => cur.performed[j].new # cur.performed[k].new
    /\ \A k \in DOMAIN cur.performed : ~cur.performed[k].replaced

\* C3: with a cryptographic hash method, a rename invocation that runs on the
\* directory a previous rename invocation produced (untouched since) renames no file and does
\* not get to appending a batch to the undo log.
Cex_C3_SecondPassIdempotent ==
  ( /\ hash_method \in {"sha256", "sha1", "md5"}
    /\ deletes = 0
    /\ cur.kind = "rename"
    /\ trace # <<>> /\ Last.kind = "rename" /\ Last.status = 0 )
  => /\ cur.performed = <<>>
     /\ pc \notin {"read", "write"}

\* the batch an undo invocation found last in the log it read
UndoneBatch(run) ==
  LET h == Loaded(run.histBefore[Resolve(cwd, UndoPath)])
  IN  IF h = <<>> THEN <<>> ELSE h[Len(h)]

\* C4: undo is best-effort per pair: every pair (original, new) of the last
\* batch whose file existed at new when the undo started is back at original
\* after the undo, also when the reversal of another pair failed.
Cex_C4_UndoBestEffort ==
  JustUndone =>
    \A k \in DOMAIN UndoneBatch(Last) :
       LET old_name == UndoneBatch(Last)[k][1]
           new_name == UndoneBatch(Last)[k][2]
       IN  new_name \in DOMAIN Last.fsBefore =>
             /\ old_name \in DOMAIN fs
             /\ fs[old_name].id = Last.fsBefore[new_name].id

\* C6: once a rename invocation has ended, the renames it performed on disk
\* are exactly the entries of its batch, and a non-empty batch is the last
\* element of the undo log; also when another task of the invocation failed.
Cex_C6_BatchIsPerformedRenames ==
  JustRenamed =>
    /\ PerformedPairs(Last) = Range(Last.batch)
    /\ PerformedPairs(Last) # {} =>
         /\ histfile[LogPath].exists
         /\ histfile[LogPath].data # <<>>
         /\ Range(histfile[LogPath].data[Len(histfile[LogPath].data)]) = PerformedPairs(Last)

\* C8: a rename invocation with at least one successful rename leaves the log
\* equal to the previous log (empty if the file was absent) with one batch
\* appended; one without a successful rename leaves the log as it was and
\* does not create it.
Cex_C8_LogAppendOnly ==
  JustRenamed =>
    IF Last.performed # <<>>
    THEN /\ histfile[LogPath].exists
         /\ Len(histfile[LogPath].data) = Len(Loaded(Last.histBefore[LogPath])) + 1
         /\ SubSeq(histfile[LogPath].data, 1, Len(histfile[LogPath].data) - 1)
              = Loaded(Last.histBefore[LogPath])
    ELSE histfile = Last.histBefore

\* C10: when --dir and --ext are given the process ends with exit status 0,
\* whatever happened to the single tasks; status 1 means a parameter is absent.
Cex_C10_ExitZero ==
  (has_args /\ exit_status # <<>>) => exit_status = <<0>>

\* the name rename_file tries for counter k in a task with the locals l
TriedName(l, k) ==
  SuffixedName(hash_method, l.filehash, l.date_string, l.special_string, extension,
               l.base_new_name, k)

\* the renames of an invocation whose candidate was the candidate of p
SameCandidate(run, p) == {q \in Range(run.performed) : q.base_new_name = p.base_new_name}

\* the directory held no name rename_file gives when the invocation started
Fresh(run) == DOMAIN run.fsBefore \subseteq {RawName(id) : id \in FileIds}

\* C5: collisions are resolved in increasing suffix order from 1.  With the
\* tasks run one after another, the path a task is about to rename to does
\* not exist and is either its candidate or the path of the smallest counter
\* k >= 1 whose path does not exist (the candidate and the counters 1 .. k-1
\* all exist); so in a directory that held none of these names, k files with
\* the same candidate end at the candidate and at the counters 1 .. k-1.
Thm_C5_SmallestFreeCounter ==
  /\ \A w \in DOMAIN worker :
       worker[w].pc = "rename" =>
         LET l == worker[w]
         IN  /\ ~os_path_exists(fs, l.new_name)
             /\ \/ l.new_name = l.base_new_name
                \/ \E k \in 1..(NumFiles + MaxSuffix) :
                     /\ l.new_name = TriedName(l, k)
                     /\ os_path_exists(fs, l.base_new_name)
                     /\ \A j \in 1..(k - 1) : os_path_exists(fs, TriedName(l, j))
  /\ (JustRenamed /\ Fresh(Last)) =>
       \A p \in Range(Last.performed) :
          {q.new : q \in SameCandidate(Last, p)} =
            {p.base_new_name} \cup {TriedName(p, j) : j \in 1..(Cardinality(SameCandidate(Last, p)) - 1)}

\* C5 witness: every file of a directory of first names had the same
\* candidate; the invocation ended with one at the candidate and one at
\* counter 1
Wit_C5_AllCollide ==
  /\ JustRenamed /\ Fresh(Last)
  /\ Len(Last.performed) = NumFiles
  /\ \A p \in Range(Last.performed) :
       /\ Cardinality(SameCandidate(Last, p)) = NumFiles
       /\ p.base_new_name \in DOMAIN fs
       /\ TriedName(p, 1) \in DOMAIN fs

\* C9: an undo that finds its history file missing or holding the empty list
\* renames no file, leaves every history file as it was (it creates none),
\* adds one ERROR record to the log file and ends with exit status 0.
Thm_C9_UndoNothingToUndo ==
  (JustUndone /\ Loaded(Last.histBefore[Resolve(cwd, UndoPath)]) = <<>>) =>
    /\ fs = Last.fsBefore
    /\ histfile = Last.histBefore
    /\ logfile = [info |-> Last.logBefore.info, error |-> Last.logBefore.error + 1]
    /\ exit_status = <<0>>

\* C9 witness: an undo run where no rename_history.json exists, while the log
\* rename_files writes holds a batch: nothing moved, one error logged
Wit_C9_MissingHistory ==
  /\ JustUndone
  /\ ~Last.histBefore[Resolve(cwd, UndoPath)].exists
  /\ Last.histBefore[LogPath].exists /\ Last.histBefore[LogPath].data # <<>>
  /\ fs = Last.fsBefore
  /\ logfile.error = Last.logBefore.error + 1

\* ---- helpers of the claims about the name builder on its own
\* a name was built (the hasher did not raise)
NameBuilt == named.result # <<>> /\ ~named.result[1].raised
BuiltName == named.result[1].new_name
Field(s, from, len) == SubSeq(s, from, from + len - 1)
\* the hash of the file and its oldest time, formatted
NamedHash == calculate_hash(named.content, named.method).value
NamedDate == strftime(Min({named.mtime, named.ctime}))
\* what the built name holds between its two leading fields and the extension
NamedMarker ==
  SubSeq(BuiltName, Len(NamedHash) + Len(NamedDate) + 2, Len(BuiltName) - Len(extension))
\* the positions in special_strings of the markers a name contains
MarkersIn(s) == {k \in DOMAIN special_strings : Contains(s, special_strings[k])}

\* C11: the candidate name is hash, '-', timestamp, marker suffix, extension
\* for imagehash and timestamp, '-', hash, marker suffix, extension for every
\* other method; the timestamp is the formatted oldest time, the marker suffix
\* is empty or '-' and one marker, the extension is the one of the file.
Thm_C11_CandidateNameFormat ==
  NameBuilt =>
    LET n == BuiltName
        h == NamedHash
        d == NamedDate
    IN  /\ Len(n) >= Len(h) + Len(d) + 1 + Len(extension)
        /\ IF named.method = "imagehash"
           THEN /\ Field(n, 1, Len(h)) = h
                /\ n[Len(h) + 1] = "-"
                /\ Field(n, Len(h) + 2, Len(d)) = d
           ELSE /\ Field(n, 1, Len(d)) = d
                /\ n[Len(d) + 1] = "-"
                /\ Field(n, Len(d) + 2, Len(h)) = h
        /\ \/ NamedMarker = <<>>
           \/ \E k \in DOMAIN special_strings : NamedMarker = <<"-">> \o special_strings[k]
        /\ EndsWith(n, extension) /\ EndsWith(named.filename, extension)

\* C11 witness: sample-mask under imagehash, modified at time 2 and changed
\* at time 1, is named hash first
Wit_C11_ImagehashHashFirst ==
  /\ NameBuilt
  /\ named.method = "imagehash" /\ named.filename = <<"sample-", "mask">> \o extension
  /\ named.mtime = 2 /\ named.ctime = 1
  /\ BuiltName = <<"ff00ff00", "-", "19700101.000001", "-", "mask">> \o extension

\* C17: the marker in the new name is the first marker of the list that the
\* file name contains, no marker when it contains none, and the new name
\* never holds two markers.
Thm_C17_FirstListedMarkerOnly ==
  NameBuilt =>
    /\ NamedMarker = IF MarkersIn(named.filename) = {} THEN <<>>
                     ELSE <<"-">> \o special_strings[Min(MarkersIn(named.filename))]
    /\ Cardinality(MarkersIn(BuiltName)) <= 1

\* C17 witness: a file name containing mask-composite is given the marker mask
Wit_C17_MaskCompositeGetsMask ==
  /\ NameBuilt
  /\ named.filename = <<"img-", "mask", "-composite">> \o extension
  /\ MarkersIn(named.filename) = {3, 5}
  /\ NamedMarker = <<"-", "mask">>

\* ---- helpers of the claims about the tasks of one invocation
\* the candidate path of the file at path f of directory d, in a one-element
\* sequence; <<>> when the hasher raises
CandidateOf(d, f) ==
  LET h == calculate_hash(d[f].content, hash_method)
      date_string == strftime(get_oldest_time(d[f].mtime, d[f].ctime, d[f].statOk, d[f].statW))
  IN  IF h.ok THEN <<CandidateName(hash_method, h.value, date_string, SpecialSuffix(f), extension)>>
      ELSE <<>>

\* the file at path f already had its candidate name when the invocation began
AlreadyNamed(run, f) ==
  /\ f \in DOMAIN run.fsBefore /\ EndsWith(f, extension)
  /\ CandidateOf(run.fsBefore, f) = <<f>>

\* the keys of a batch
Keys(batch) == {batch[k][1] : k \in DOMAIN batch}

\* C12: a task whose candidate path equals its original path is a no-op: its
\* result is the skip result (None), neither a pair nor an exception, no
\* rename of the invocation moves the file, the file stays as it was, and the
\* batch appended to the undo log has no entry for it.
Thm_C12_SameNameSkipped ==
  /\ pc \in {"pool", "read", "write"} =>
       \A t \in 1..(next_task - 1) :
          AlreadyNamed(cur, file_list[t]) =>
            /\ results[t] = Skipped
            /\ \A q \in Range(cur.performed) : q.old # file_list[t]
            /\ file_list[t] \in DOMAIN fs /\ fs[file_list[t]] = cur.fsBefore[file_list[t]]
            /\ file_list[t] \notin Keys(rename_history)
  /\ JustRenamed =>
       \A f \in DOMAIN Last.fsBefore :
          AlreadyNamed(Last, f) =>
            /\ \A q \in Range(Last.performed) : q.old # f
            /\ f \in DOMAIN fs /\ fs[f] = Last.fsBefore[f]
            /\ f \notin Keys(Last.batch)
            /\ Last.status = 0 /\ Last.batch # <<>> =>
                 f \notin Keys(histfile[LogPath].data[Len(histfile[LogPath].data)])

\* C12 witness: an invocation that skipped one file, which had its candidate
\* name, and renamed the other has ended with a batch of one entry
Wit_C12_OneSkippedOneRenamed ==
  /\ JustRenamed /\ Last.status = 0
  /\ \E f \in DOMAIN Last.fsBefore : AlreadyNamed(Last, f) /\ f \in DOMAIN fs
  /\ Len(Last.performed) = 1 /\ Len(Last.batch) = 1
  /\ histfile[LogPath] = JsonFile(<<Last.batch>>)

\* C13: an undo that found a non-empty log leaves the log it read without
\* that log's last batch, also when the reversal of a pair of the batch
\* failed.
Cex_C13_UndoAlwaysPopsBatch ==
  LET path == Resolve(cwd, UndoPath)
      before == Loaded(Last.histBefore[path])
  IN  (JustUndone /\ before # <<>>) =>
         histfile[path] = JsonFile(SubSeq(before, 1, Len(before) - 1))

\* a name without its trailing extension
Stem(name) == SubSeq(name, 1, Len(name) - Len(extension))

\* how many times the extension occurs in a name
ExtensionCount(name) ==
  Cardinality({k \in 0..(Len(name) - Len(extension)) :
                 SubSeq(name, k + 1, k + Len(extension)) = extension})

\* C14: for both hash methods a task whose candidate path exists is about to
\* rename to the candidate's name without its extension, then '-' and the
\* counter, then the extension, and the extension occurs once in that name.
Cex_C14_CounterBeforeExtension ==
  \A w \in DOMAIN worker :
     (worker[w].pc = "rename" /\ worker[w].new_name # worker[w].base_new_name) =>
        /\ \E k \in 1..(NumFiles + MaxSuffix) :
              worker[w].new_name =
                Stem(worker[w].base_new_name) \o <<"-", Str(k)>> \o extension
        /\ ExtensionCount(worker[w].new_name) = 1

\* ---- helpers of the claim about invocations side by side
AllDone == pc = "side by side" /\ \A p \in Invocations : inv[p].pc = "done"
\* the batch of invocation p is in the persisted log
InLog(p) == inv[p].rename_history \in Range(Loaded(histfile[LogPath]))
\* invocation p read the log after invocation q had written it
SawWriteOf(p, q) ==
  inv[q].rename_history \in Range(SubSeq(inv[p].history, 1, Len(inv[p].history) - 1))
\* every read came before every write
NoneSawAnother == \A p, q \in Invocations : p # q => ~SawWriteOf(p, q)
\* invocation p renamed its file on disk
RenamedOnDisk(p) ==
  /\ Len(inv[p].rename_history) = 1
  /\ inv[p].rename_history[1][1] = RawName(p)
  /\ RawName(p) \notin DOMAIN fs
  /\ inv[p].rename_history[1][2] \in DOMAIN fs
  /\ fs[inv[p].rename_history[1][2]].id = p

\* C15: the read, append and rewrite of the undo log are unprotected.  Once
\* overlapping rename invocations with non-empty batches have all ended, each
\* has renamed its file on disk and the log is the list the last writer
\* dumped; when every read came before every write, the log holds the batch
\* of one invocation only: the others are lost.  (The witness shows that
\* this interleaving is reachable.)
Thm_C15_LostUpdate ==
  AllDone =>
    /\ \A p \in Invocations : RenamedOnDisk(p)
    /\ \E w \in Invocations : histfile[LogPath] = JsonFile(inv[w].history)
    /\ NoneSawAnother => Cardinality({p \in Invocations : InLog(p)}) = 1

\* C15 witness: two invocations have ended, both files are renamed, and the
\* log that held an earlier batch holds that batch and the batch of the
\* second invocation but not the batch of the first
Wit_C15_FirstBatchLost ==
  /\ AllDone
  /\ RenamedOnDisk(1) /\ RenamedOnDisk(2)
  /\ ~InLog(1)
  /\ histfile[LogPath] = JsonFile(<<EarlierBatch, inv[2].rename_history>>)

\* ---- helpers of the claim about the aggregation step
\* a task is still pending or running
TasksUnfinished ==
  \/ \E k \in DOMAIN results : results[k].tag = "pending"
  \/ \E w \in DOMAIN worker : worker[w].pc # "idle"
  \/ next_task <= Len(file_list)

\* C16: within one rename invocation the aggregation comes strictly after
\* the workers: the log is not opened while a task is pending or running, it
\* is loaded at most once and dumped at most once, it stays as it was found
\* until that one dump, and the dump adds the batch of all the results at
\* once; the log never holds a part of the batch.
Thm_C16_AggregationAfterWorkers ==
  /\ pc = "pool" => cur.reads = 0 /\ cur.writes = 0
  /\ pc \in {"read", "write"} =>
       /\ ~TasksUnfinished
       /\ rename_history = DictOf(FilteredResults(results)) /\ rename_history # <<>>
       /\ cur.reads = (IF pc = "write" THEN 1 ELSE 0) /\ cur.writes = 0
  /\ pc = "write" => history = Append(Loaded(cur.histBefore[LogPath]), rename_history)
  /\ pc \in {"pool", "read", "write"} => histfile = cur.histBefore
  /\ JustRenamed =>
       /\ Last.reads <= 1 /\ Last.writes <= 1
       /\ \/ Last.writes = 0 /\ histfile = Last.histBefore
          \/ /\ Last.writes = 1 /\ Last.reads = 1 /\ Last.batch # <<>>
             /\ \A q \in Range(Last.performed) :
                  \E k \in DOMAIN Last.batch : Last.batch[k][1] = q.old
             /\ histfile = [Last.histBefore EXCEPT ![LogPath] =
                              JsonFile(Append(Loaded(Last.histBefore[LogPath]), Last.batch))]

\* C16 witness: two workers are both between the existence check and the
\* rename of their tasks, and the log is still as the invocation found it
Wit_C16_WorkersRunningLogUntouched ==
  /\ pc = "pool" /\ nproc >= 2
  /\ worker[1].pc = "rename" /\ worker[2].pc = "rename"
  /\ \E k \in DOMAIN results : results[k].tag = "pending"
  /\ histfile = cur.histBefore /\ histfile[LogPath] = JsonFile(<<EarlierBatch>>)
====
